---- MODULE Spec2Model ----
(***************************************************************************)
(* Model of seq_queries/sample.py: the beam search sample_beam_search with *)
(* its helpers, and the importance sampler mc_sample_importance.           *)
(*                                                                         *)
(* Numbers.  A probability is an exact fraction [n |-> .., d |-> ..].      *)
(* A log-probability is kept as [ln |-> p], the logarithm of the fraction  *)
(* p: adding two logarithms multiplies the fractions, comparing them       *)
(* compares the fractions, and TExp gives the fraction back unless it is   *)
(* below the smallest representable float, where it is flushed to zero.    *)
(* Token ids, rows and flat indices are 0-based as in the code; TLA+       *)
(* sequences are 1-based, so row r of a tensor is element r + 1.           *)
(***************************************************************************)
EXTENDS Integers, Sequences, FiniteSets, TLC

VARIABLES
    fn,                 \* which entry point was called: "beam" or "is"
    pc,                 \* position in the called function
    err,                \* the exception that ended the call, "" if none
    model,              \* the oracle behind model.get_next_probs
    histories,          \* argument histories
    total_seq_lens,     \* argument total_seq_lens
    excluded,           \* argument excluded
    beam_widths,        \* argument beam_widths
    bw_params,          \* argument bw_params (a dict the callee may write)
    num_seqs,           \* argument num_seqs of mc_sample_importance
    batch,              \* argument batch of mc_sample_importance
    orig_beams,         \* prepare_beams' first result
    percentile,         \* prepare_beams' second result
    all_beam_coverages, \* per history, the recorded thresholds
    all_beam_widths,    \* per history, the recorded widths
    sorted_probs_inds,  \* per history, (log-probabilities, indices)
    sorted_states,      \* per history, one opaque state per row
    seqs,               \* per history, one token sequence per row
    log_probs,          \* per history, the sampler's running log-probabilities
    probs,              \* the list `probs` of the inner loop's last iteration
    pos,                \* the driving loop's variable
    calls,              \* per history, the oracle call of the last step
    n_calls,            \* get_next_probs calls made so far
    rng,                \* the process-wide generators: random, numpy, torch
    seed,               \* the seed the caller passes to _set_random_seed
    run,                \* 1 for the first call, 2 for the re-run
    first,              \* what the first call returned
    numpy_has_pow,      \* whether the installed numpy defines np.pow
    thresholds          \* per history, the curr_beam of each get_beam_width call

vars == <<fn, pc, err, model, histories, total_seq_lens, excluded, beam_widths,
          bw_params, num_seqs, batch, orig_beams, percentile,
          all_beam_coverages, all_beam_widths, sorted_probs_inds,
          sorted_states, seqs, log_probs, probs, pos, calls, n_calls, rng,
          seed, run, first, numpy_has_pow, thresholds>>

-----------------------------------------------------------------------------
(* Bounds of the model. *)

VocabSize == 3
MaxHists == 2
MaxSteps == 3
MaxWidth == 4
MaxNorm == 65
MaxSeqs == 2
MaxSeed == 2

(* The scale of the numbers: eps = 1/EpsDen stands for the default 1e-10, *)
(* and a float below 1/UnderflowDen is zero.                               *)
EpsDen == 4
UnderflowDen == 7

Vocab == 0 .. (VocabSize - 1)
(* None (no state, no list) is the empty sequence; a float nan is 0/0. *)
None == <<>>

-----------------------------------------------------------------------------
(* Exact fractions. *)

R(n, d) == [n |-> n, d |-> d]

RECURSIVE Gcd(_, _)
Gcd(a, b) == IF b = 0 THEN a ELSE Gcd(b, a % b)

Lcm(a, b) == (a \div Gcd(a, b)) * b

Reduce(x) ==
    LET g == Gcd(x.n, x.d) IN IF g = 0 THEN x ELSE R(x.n \div g, x.d \div g)

NaN == R(0, 0)

RMul(a, b) == R(a.n * b.n, a.d * b.d)

RAdd(a, b) ==
    LET l == Lcm(a.d, b.d) IN R(a.n * (l \div a.d) + b.n * (l \div b.d), l)

RSub(a, b) ==
    LET l == Lcm(a.d, b.d) IN R(a.n * (l \div a.d) - b.n * (l \div b.d), l)

RLeq(a, b) ==
    IF a.d = b.d THEN a.n <= b.n
    ELSE LET l == Lcm(a.d, b.d) IN a.n * (l \div a.d) <= b.n * (l \div b.d)

REq(a, b) == RLeq(a, b) /\ RLeq(b, a)

RECURSIVE RPow(_, _)
RPow(x, k) == IF k = 0 THEN R(1, 1) ELSE RMul(x, RPow(x, k - 1))

RECURSIVE RSum(_)
RSum(s) == IF s = <<>> THEN R(0, 1) ELSE RAdd(Head(s), RSum(Tail(s)))

RECURSIVE ISum(_)
ISum(s) == IF s = <<>> THEN 0 ELSE Head(s) + ISum(Tail(s))

Min(a, b) == IF a <= b THEN a ELSE b

(* The sequence s with its elements evaluated once. *)
Tensor(s) == s \o <<>>


Last(s) == s[Len(s)]

(* Python's s[:k] for k >= 0. *)
Take(s, k) == SubSeq(s, 1, Min(k, Len(s)))

(* Python's s[k:] is not needed; s[idx] for a list of 0-based rows idx. *)
Gather(s, idx) == Tensor([j \in 1 .. Len(idx) |-> s[idx[j] + 1]])

RECURSIVE MaxOf(_)
MaxOf(s) == IF Len(s) = 1 THEN s[1]
            ELSE LET m == MaxOf(Tail(s)) IN IF s[1] >= m THEN s[1] ELSE m

-----------------------------------------------------------------------------
(* Logarithms and exponentials of fractions. *)

TLog(p) == [ln |-> p]

LogAdd(a, b) == [ln |-> RMul(a.ln, b.ln)]

LogLeq(a, b) == RLeq(a.ln, b.ln)

Underflows(p) == p.n * UnderflowDen < p.d

TExp(l) == IF Underflows(l.ln) THEN R(0, l.ln.d) ELSE l.ln

-----------------------------------------------------------------------------
(* The oracle.  A table row gives the next-token probabilities after one  *)
(* context; the opaque state is the token sequence the oracle has         *)
(* consumed.  A "strong" row puts all its mass on its peak, a "mild" row  *)
(* 5/8 on its peak and 3/8 on the next token id.                          *)

OracleDen == 2 * EpsDen

Eps == R(1, EpsDen)

HalfEps == R(1, 2 * EpsDen)

RowOf(m) ==
    [t \in 1 .. VocabSize |->
        IF m.kind = "strong"
        THEN (IF t - 1 = m.peak THEN R(OracleDen, OracleDen) ELSE R(0, OracleDen))
        ELSE (IF t - 1 = m.peak THEN R(5, OracleDen)
              ELSE IF t - 1 = (m.peak + 1) % VocabSize THEN R(3, OracleDen)
              ELSE R(0, OracleDen))]

TableOf(shift, mild) ==
    [j \in Vocab |-> [kind |-> IF j = mild THEN "mild" ELSE "strong",
                      peak |-> (j + shift) % VocabSize]]

(* The table whose rows are all mild. *)
AllMild == [j \in Vocab |-> [kind |-> "mild", peak |-> j]]

ModelSet == {TableOf(s, m) : s \in {0, 1}, m \in Vocab \cup {-1}} \cup {AllMild}

(* model.get_next_probs for one row: cur is the tensor of current tokens  *)
(* of that row, st the prior state (None at the root).                    *)
GetNextProbs(cur, st) ==
    LET ctx == st \o cur
    IN  [probs |-> RowOf(model[(Last(ctx) + Len(ctx)) % VocabSize]),
         state |-> ctx]

AddEps(row) == [t \in 1 .. Len(row) |-> RAdd(row[t], Eps)]

(* No mask: the row as the oracle gave it. *)
MaskSetNone(row, excl) == row

(* row[:, excluded] = eps/2 *)
MaskSet(row, excl) ==
    [t \in 1 .. Len(row) |-> IF (t - 1) \in excl THEN HalfEps ELSE row[t]]

(* row[:, excluded] *= eps/2 *)
MaskMul(row, excl) ==
    [t \in 1 .. Len(row) |->
        IF (t - 1) \in excl THEN RMul(row[t], HalfEps) ELSE row[t]]

(* row /= row.sum() *)
Normalize(row) ==
    LET z == RSum(row)
    IN  [t \in 1 .. Len(row) |-> Reduce(R(row[t].n * z.d, row[t].d * z.n))]

(* The denominator over which every normalized row of this run can be     *)
(* written, and a fraction written over it (the same number).             *)
RECURSIVE LcmOf(_)
LcmOf(S) == IF S = {} THEN 1
            ELSE LET x == CHOOSE y \in S : TRUE IN Lcm(x, LcmOf(S \ {x}))

NormDenOf(m, excl) ==
    LcmOf({Normalize(MaskSet(AddEps(RowOf(m[j])), excl))[t].d :
              j \in Vocab, t \in 1 .. VocabSize})

NormDen == NormDenOf(model, excluded)

Canon(x, nd) == R(x.n * (nd \div x.d), nd)

(* Lines 542-546 and 672-678: the masked, renormalized distribution.      *)
MaskedProbs(raw, excl, nd) ==
    LET p == Tensor(Normalize(MaskSet(AddEps(raw), excl)))
    IN  Tensor([t \in 1 .. Len(p) |-> Canon(p[t], nd)])

-----------------------------------------------------------------------------
(* Sorting.  torch.sort (descending, not stable) leaves the order of     *)
(* equal elements open.  The model takes two of the possible outcomes:    *)
(* equal elements in index order ("stable") or in reverse index order     *)
(* ("reverse").  SortIdx is the sorted 1-based indices.                   *)

TieOrders == {"stable", "reverse"}

Before(v, i, j, tie) ==
    \/ ~RLeq(v[i], v[j])
    \/ /\ RLeq(v[j], v[i])
       /\ IF tie = "stable" THEN i < j ELSE i > j

InsertIdx(v, i, s, tie) ==
    LET p == Cardinality({k \in 1 .. Len(s) : Before(v, s[k], i, tie)})
    IN  SubSeq(s, 1, p) \o <<i>> \o SubSeq(s, p + 1, Len(s))

RECURSIVE SortIdx(_, _, _)
SortIdx(v, n, tie) ==
    IF n = 0 THEN <<>> ELSE InsertIdx(v, n, SortIdx(v, n - 1, tie), tie)

(* torch.sort(v, descending = True): (values, 0-based indices). *)
TorchSort(v, tie) ==
    LET idx == SortIdx(v, Len(v), tie)
    IN  [vals |-> Tensor([k \in 1 .. Len(v) |-> v[idx[k]]]),
         inds |-> Tensor([k \in 1 .. Len(v) |-> idx[k] - 1])]

-----------------------------------------------------------------------------
(* Coverage policy: lines 310-330 and 393-493. *)

Fractions == {R(n, d) : n \in 1 .. 9, d \in 2 .. 10}

(* np.power(c, 1/s) for s >= 1 and a c that has an exact root. *)
Power(c, s) == IF s = 1 THEN c ELSE CHOOSE r \in Fractions : RPow(r, s) = c

HasRoot(c, s) == s = 1 \/ \E r \in Fractions : RPow(r, s) = c

(* The first index whose cumulative mass reaches curr_beam, without the   *)
(* plus one that turns the index into a count.                            *)
FirstReachingIndex(prob, curr_beam) ==
    LET tot(k) == ISum([j \in 1 .. k |-> prob[j].n])
        hits == {k \in 1 .. Len(prob) :
                    tot(k) * curr_beam.d >= curr_beam.n * prob[k].d}
    IN  IF hits = {} \/ curr_beam.d = 0 THEN 0
        ELSE (CHOOSE k \in hits : \A h \in hits : k <= h) - 1

(* torch.cumsum, then the first index whose cumulative mass reaches       *)
(* curr_beam, plus one; 0 stands for the IndexError of an empty argwhere. *)
FirstReaching(prob, curr_beam) ==
    LET tot(k) == ISum([j \in 1 .. k |-> prob[j].n])
        hits == {k \in 1 .. Len(prob) :
                    tot(k) * curr_beam.d >= curr_beam.n * prob[k].d}
    IN  IF hits = {} \/ curr_beam.d = 0 THEN 0
        ELSE CHOOSE k \in hits : \A h \in hits : k <= h

(* get_beam_width with the fixed width clamped to the vocabulary at every  *)
(* step.                                                                  *)
get_beam_width_clamped(curr_beam, prob, perc) ==
    IF ~perc THEN Min(curr_beam, VocabSize) ELSE FirstReaching(prob, curr_beam)

get_beam_width(curr_beam, prob, perc) ==
    IF ~perc THEN curr_beam ELSE FirstReaching(prob, curr_beam)

(* get_beam_coverage with a backoff that does not compound. *)
get_beam_coverage_flat(curr_coverage, orig_coverage, params, index) ==
    CASE params.coverage_type \in {"fixed_width", "backoff"} -> orig_coverage
      [] params.coverage_type = "interpolate" ->
            IF params.interpolate_step[index] = NaN THEN NaN
            ELSE Reduce(RSub(curr_coverage, params.interpolate_step[index]))

get_beam_coverage(curr_coverage, orig_coverage, params, index) ==
    CASE params.coverage_type = "fixed_width" -> orig_coverage
      [] params.coverage_type = "backoff" -> Reduce(RMul(curr_coverage, orig_coverage))
      [] params.coverage_type = "interpolate" ->
            IF params.interpolate_step[index] = NaN THEN NaN
            ELSE Reduce(RSub(curr_coverage, params.interpolate_step[index]))

(* The results of prepare_beams: [orig, percentile, params, err]. *)
Prepared(o, perc, params) ==
    [orig |-> o, percentile |-> perc, params |-> params, err |-> ""]

Raised(e, params) ==
    [orig |-> <<>>, percentile |-> FALSE, params |-> params, err |-> e]

(* A list element as np.power takes it. *)
AsFloat(a) == IF a.type = "int" THEN R(a.i, 1) ELSE a.f

(* A list element as it is. *)
AsIs(a) == IF a.type = "int" THEN a.i ELSE a.f

_prepare_beams_backoff(widths, num_hists, seq_lens, params) ==
    CASE widths.type = "int" ->
            Prepared([i \in 1 .. num_hists |-> widths.i], FALSE, params)
      [] widths.type = "float" ->
            IF \E i \in 1 .. num_hists : seq_lens[i] = 0
            THEN Raised("ZeroDivisionError", params)
            ELSE Prepared([i \in 1 .. num_hists |-> Power(widths.f, seq_lens[i])],
                          TRUE, params)
      [] widths.type = "list" ->
            IF Len(widths.l) # num_hists
            THEN Raised("AssertionError", params)
            ELSE IF widths.l[1].type # "float"
            THEN Prepared([i \in 1 .. num_hists |-> AsIs(widths.l[i])], FALSE, params)
            ELSE IF ~numpy_has_pow
            THEN Raised("AttributeError", params)
            ELSE IF \E i \in 1 .. num_hists : seq_lens[i] = 0
            THEN Raised("ZeroDivisionError", params)
            ELSE Prepared([i \in 1 .. num_hists |->
                              Power(AsFloat(widths.l[i]), seq_lens[i])],
                          TRUE, params)
      [] OTHER -> Raised("AssertionError", params)

(* (orig - c) / (s - 1) on numpy floats: 0/0 is nan, not an exception. *)
InterpolateStep(o, c, s) ==
    IF s = 1 THEN NaN
    ELSE LET diff == RSub(o, c) IN Reduce(R(diff.n, diff.d * (s - 1)))

_prepare_beams_interpolate(widths, num_hists, seq_lens, params) ==
    CASE widths.type = "float" ->
            IF ~(0 < widths.f.n /\ widths.f.n < widths.f.d)
            THEN Raised("AssertionError", params)
            ELSE IF \E i \in 1 .. num_hists : seq_lens[i] = 0
            THEN Raised("ZeroDivisionError", params)
            ELSE LET o == [i \in 1 .. num_hists |-> Power(widths.f, seq_lens[i])]
                 IN  Prepared(o, TRUE,
                        [params EXCEPT !.interpolate_step =
                            [i \in 1 .. num_hists |->
                                InterpolateStep(o[i], widths.f, seq_lens[i])]])
      [] widths.type = "list" ->
            IF Len(widths.l) # num_hists
            THEN Raised("AssertionError", params)
            ELSE IF widths.l[1].type # "float"
            THEN Raised("UnboundLocalError", params)
            ELSE IF \E i \in 1 .. num_hists : seq_lens[i] = 0
            THEN Raised("ZeroDivisionError", params)
            ELSE LET o == [i \in 1 .. num_hists |->
                              Power(AsFloat(widths.l[i]), seq_lens[i])]
                 IN  Prepared(o, TRUE,
                        [params EXCEPT !.interpolate_step =
                            [i \in 1 .. num_hists |->
                                InterpolateStep(o[i], AsFloat(widths.l[i]),
                                                seq_lens[i])]])
      [] OTHER -> Raised("AssertionError", params)

prepare_beams(widths, num_hists, seq_lens, params) ==
    CASE params.coverage_type \in {"fixed_width", "backoff"} ->
            _prepare_beams_backoff(widths, num_hists, seq_lens, params)
      [] params.coverage_type = "interpolate" ->
            _prepare_beams_interpolate(widths, num_hists, seq_lens, params)
      [] OTHER -> Raised("KeyError", params)

-----------------------------------------------------------------------------
(* sample_beam_search, lines 617-741. *)

NumHists == Len(histories)
Hists == 1 .. NumHists
HistLens == [i \in Hists |-> Len(histories[i])]
SeqLens == [i \in Hists |-> total_seq_lens[i] - HistLens[i]]

(* Lines 573 and 692: the curr_beam handed to get_beam_width. *)
Threshold(i) == Last(all_beam_coverages[i])

(* No oracle call was made for a history in the last step. *)
NoCall == [tokens |-> <<>>, states |-> <<>>]

Fail(e) ==
    /\ pc' = "error"
    /\ err' = e

(* Lines 650-661. *)
BeamPrepare ==
    /\ fn = "beam" /\ pc = "prepare"
    /\ \E r \in {prepare_beams(beam_widths, NumHists, SeqLens, bw_params)} :
           /\ bw_params' = r.params
           /\ IF r.err # ""
              THEN /\ Fail(r.err)
                   /\ UNCHANGED <<orig_beams, percentile, all_beam_coverages>>
              ELSE /\ pc' = "root"
                   /\ err' = ""
                   /\ orig_beams' = r.orig
                   /\ percentile' = r.percentile
                   /\ all_beam_coverages' = [i \in Hists |-> <<r.orig[i]>>]
    /\ UNCHANGED <<numpy_has_pow, thresholds,
                   fn, model, histories, total_seq_lens, excluded, beam_widths,
                   num_seqs, batch, all_beam_widths, sorted_probs_inds,
                   sorted_states, seqs, log_probs, probs, pos, calls, n_calls,
                   rng, seed, run, first>>

(* The rows of the root frontier without the min of lines 706 and 715. *)
RootRowsUnclamped(bw) == bw

(* Line 706 and 715: the rows of the root frontier. *)
RootRows(bw) == Min(bw, VocabSize)

(* Lines 663-678: the root distribution of history i. *)
RootQuery(i) == GetNextProbs(histories[i], None)

RootProbs(i) == MaskedProbs(RootQuery(i).probs, excluded, NormDen)

(* Without percentile the width of history i is its list element, which  *)
(* may be a float: line 707 then repeats the state a float number of      *)
(* times, a TypeError.                                                    *)
FloatWidth(i) ==
    /\ ~percentile
    /\ beam_widths.type = "list"
    /\ beam_widths.l[i].type = "float"

(* Lines 663-720 for all histories: the root frontier, or the error raised. *)
RootFrontier(ties) ==
    LET p == Tensor([i \in Hists |-> RootProbs(i)])
        srt == Tensor([i \in Hists |-> TorchSort(p[i], ties[i])])
        bws == Tensor([i \in Hists |->
                  get_beam_width(Threshold(i), p[i], percentile)])
        toks == Tensor([i \in Hists |-> Take(srt[i].inds, bws[i])])
    IN  IF \E i \in Hists : FloatWidth(i)
        THEN [err |-> "TypeError"]
        ELSE
        [err |-> IF \E i \in Hists : bws[i] = 0 THEN "IndexError"
                 ELSE IF \E i \in Hists : RootRows(bws[i]) # Len(toks[i])
                 THEN "RuntimeError"
                 ELSE "",
         all_beam_widths |-> Tensor([i \in Hists |-> <<bws[i]>>]),
         sorted_probs_inds |-> Tensor([i \in Hists |->
             [vals |-> Tensor([k \in 1 .. VocabSize |-> TLog(srt[i].vals[k])]),
              inds |-> srt[i].inds]]),
         sorted_states |-> Tensor([i \in Hists |->
             Tensor([r \in 1 .. RootRows(bws[i]) |-> RootQuery(i).state])]),
         seqs |-> Tensor([i \in Hists |->
             Tensor([r \in 1 .. Min(RootRows(bws[i]), Len(toks[i])) |->
                 Append(histories[i], toks[i][r])])])]

(* Lines 663-720. *)
BeamRoot ==
    /\ fn = "beam" /\ pc = "root"
    /\ n_calls' = n_calls + NumHists
    /\ calls' = [i \in Hists |-> [tokens |-> <<histories[i]>>, states |-> None]]
    /\ \E ties \in [Hists -> TieOrders] :
       \E root \in {RootFrontier(ties)} :
         IF root.err # ""
         THEN /\ Fail(root.err)
              /\ UNCHANGED <<all_beam_widths, sorted_probs_inds,
                             sorted_states, seqs, thresholds>>
         ELSE /\ pc' = "loop"
              /\ err' = ""
              /\ all_beam_widths' = root.all_beam_widths
              /\ sorted_probs_inds' = root.sorted_probs_inds
              /\ sorted_states' = root.sorted_states
              /\ seqs' = root.seqs
              /\ thresholds' = [i \in Hists |-> <<Threshold(i)>>]
    /\ pos' = 1
    /\ UNCHANGED <<numpy_has_pow,
                   fn, model, histories, total_seq_lens, excluded, beam_widths,
                   bw_params, num_seqs, batch, orig_beams, percentile,
                   all_beam_coverages, log_probs, probs, rng, seed, run, first>>

-----------------------------------------------------------------------------
(* beam_search_inner_loop, lines 496-609. *)

MaxSeqLen == MaxOf(SeqLens)

(* The test of line 529 with <= for <. *)
ActiveThrough(i) == pos <= SeqLens[i]

(* Line 529 and 544: history i takes a step in this iteration. *)
Active(i) == pos < SeqLens[i]

(* Line 552 and 553: the stored log-probabilities, cut to the last width. *)
Cums(i) == Take(sorted_probs_inds[i].vals, Last(all_beam_widths[i]))

(* Lines 528-540: one oracle call on the last tokens and states of i.     *)
Query(i) ==
    Tensor([r \in 1 .. Len(seqs[i]) |->
        GetNextProbs(<<Last(seqs[i][r])>>, sorted_states[i][r])])

(* Line 591: the log-probabilities kept for the new rows. *)
KeptLogProbs(sorted_vals, seq_inds, beam_width) == Gather(sorted_vals, seq_inds)

(* Lines 568-569: exp of the sorted values, divided by their sum: every   *)
(* entry is n/0, a nan, when every value underflows.                      *)
SortedProbs(sv) ==
    LET e == Tensor([k \in 1 .. Len(sv) |-> TExp(TLog(sv[k]))])
        tot == ISum([k \in 1 .. Len(e) |-> e[k].n])
    IN  Tensor([k \in 1 .. Len(e) |-> R(e[k].n, tot)])

(* Lines 551-555: the joint surface of history i, one row per candidate.  *)
Joint(cums, new_probs) ==
    Tensor([r \in 1 .. Len(new_probs) |->
        Tensor([t \in 1 .. VocabSize |->
            LogAdd(cums[IF Len(cums) = 1 THEN 1 ELSE r], TLog(new_probs[r][t]))])])

(* Lines 542-581 for an active history: the step up to the new width.     *)
StepInfo(i, tie) ==
    LET q == Query(i)
        nd == NormDen
        new_probs == Tensor([r \in 1 .. Len(q) |->
                        MaskedProbs(q[r].probs, excluded, nd)])
        joint == Joint(Cums(i), new_probs)
        flat == Tensor([k \in 1 .. Len(q) * VocabSize |->
                    joint[((k - 1) \div VocabSize) + 1][((k - 1) % VocabSize) + 1].ln])
        srt == TorchSort(flat, tie)
        sp == SortedProbs(srt.vals)
        nan == \E k \in DOMAIN sp : sp[k].d = 0
    IN  [new_states |-> Tensor([r \in 1 .. Len(q) |-> q[r].state]),
         joint |-> joint,
         sorted_vals |-> Tensor([k \in 1 .. Len(flat) |-> TLog(srt.vals[k])]),
         sorted_inds |-> srt.inds,
         nan |-> nan,
         width |-> IF nan THEN 0
                   ELSE get_beam_width(Threshold(i), sp, percentile)]

(* Lines 583-608 with best_tokens computed as seq_inds is: the row index *)
(* is appended as the token.                                              *)
NewFrontierRowAsToken(i, info) ==
    LET tokens == Take(info.sorted_inds, info.width)
        seq_inds == Tensor([j \in 1 .. Len(tokens) |-> tokens[j] \div VocabSize])
        best_tokens == seq_inds
    IN  [sorted_probs_inds |->
            [vals |-> KeptLogProbs(info.sorted_vals, seq_inds, info.width),
             inds |-> best_tokens],
         sorted_states |-> Gather(info.new_states, seq_inds),
         seqs |-> [j \in 1 .. Len(tokens) |->
                      Append(seqs[i][seq_inds[j] + 1], best_tokens[j])]]

(* Lines 583-608 with the states taken in row order instead of being     *)
(* gathered by seq_inds.                                                  *)
NewFrontierStatesInOrder(i, info) ==
    LET tokens == Take(info.sorted_inds, info.width)
        seq_inds == Tensor([j \in 1 .. Len(tokens) |-> tokens[j] \div VocabSize])
        best_tokens == Tensor([j \in 1 .. Len(tokens) |-> tokens[j] % VocabSize])
    IN  [sorted_probs_inds |->
            [vals |-> KeptLogProbs(info.sorted_vals, seq_inds, info.width),
             inds |-> best_tokens],
         sorted_states |->
            Tensor([j \in 1 .. Len(tokens) |->
                info.new_states[((j - 1) % Len(info.new_states)) + 1]]),
         seqs |-> [j \in 1 .. Len(tokens) |->
                      Append(seqs[i][seq_inds[j] + 1], best_tokens[j])]]

(* Lines 583-608: the new frontier of history i from the kept entries.    *)
NewFrontier(i, info) ==
    LET tokens == Take(info.sorted_inds, info.width)
        seq_inds == Tensor([j \in 1 .. Len(tokens) |-> tokens[j] \div VocabSize])
        best_tokens == Tensor([j \in 1 .. Len(tokens) |-> tokens[j] % VocabSize])
    IN  [sorted_probs_inds |->
            [vals |-> KeptLogProbs(info.sorted_vals, seq_inds, info.width),
             inds |-> best_tokens],
         sorted_states |-> Gather(info.new_states, seq_inds),
         seqs |-> [j \in 1 .. Len(tokens) |->
                      Append(seqs[i][seq_inds[j] + 1], best_tokens[j])]]

(* Lines 524-609 for all histories: what one iteration computes. *)
Iteration(ties) ==
    LET act == {i \in Hists : Active(i)}
        info == Tensor([i \in Hists |->
                    IF i \in act THEN StepInfo(i, ties[i]) ELSE <<>>])
        new == Tensor([i \in Hists |->
                    IF i \in act /\ ~info[i].nan /\ info[i].width > 0
                    THEN NewFrontier(i, info[i]) ELSE <<>>])
    IN  [err |-> IF \E i \in act : info[i].nan THEN "AssertionError"
                 ELSE IF \E i \in act : info[i].width = 0 THEN "IndexError"
                 ELSE "",
         act |-> act,
         probs |-> Tensor([i \in Hists |->
                      IF i \in act THEN info[i].joint ELSE Cums(i)]),
         widths |-> Tensor([i \in Hists |->
                      IF i \in act THEN info[i].width ELSE 0]),
         new |-> new]

(* One iteration of the loop of line 524. *)
BeamStep ==
    /\ fn = "beam" /\ pc = "loop" /\ pos <= MaxSeqLen
    /\ \E ties \in [Hists -> TieOrders] :
       \E it \in {Iteration(ties)} :
           /\ calls' = [i \in Hists |->
                  IF i \in it.act
                  THEN [tokens |-> [r \in 1 .. Len(seqs[i]) |-> <<Last(seqs[i][r])>>],
                        states |-> sorted_states[i]]
                  ELSE NoCall]
           /\ n_calls' = n_calls + Cardinality(it.act)
           /\ probs' = it.probs
           /\ IF it.err # ""
              THEN /\ Fail(it.err)
                   /\ UNCHANGED <<all_beam_coverages, all_beam_widths,
                                  sorted_probs_inds, sorted_states, seqs, pos,
                                  thresholds>>
              ELSE /\ all_beam_widths' = [i \in Hists |->
                          IF i \in it.act
                          THEN Append(all_beam_widths[i], it.widths[i])
                          ELSE all_beam_widths[i]]
                   /\ all_beam_coverages' = [i \in Hists |->
                          IF i \in it.act /\ percentile
                          THEN Append(all_beam_coverages[i],
                                  get_beam_coverage(Last(all_beam_coverages[i]),
                                                    orig_beams[i], bw_params, i))
                          ELSE all_beam_coverages[i]]
                   /\ sorted_probs_inds' = [i \in Hists |->
                          IF i \in it.act THEN it.new[i].sorted_probs_inds
                          ELSE sorted_probs_inds[i]]
                   /\ sorted_states' = [i \in Hists |->
                          IF i \in it.act THEN it.new[i].sorted_states
                          ELSE sorted_states[i]]
                   /\ seqs' = [i \in Hists |->
                          IF i \in it.act THEN it.new[i].seqs ELSE seqs[i]]
                   /\ thresholds' = [i \in Hists |->
                          IF i \in it.act
                          THEN Append(thresholds[i], Threshold(i))
                          ELSE thresholds[i]]
                   /\ pos' = pos + 1
                   /\ UNCHANGED <<pc, err>>
    /\ UNCHANGED <<numpy_has_pow,
                   fn, model, histories, total_seq_lens, excluded, beam_widths,
                   bw_params, num_seqs, batch, orig_beams, percentile,
                   log_probs, rng, seed, run, first>>

(* torch.stack of a list: every element must have the same shape. *)
SameLen(l) == \A i, j \in DOMAIN l : Len(l[i]) = Len(l[j])

SameShape(l) == SameLen(l) /\ \A i, j \in DOMAIN l : SameLen(<<l[i][1], l[j][1]>>)

(* The end of the loop and lines 737-741. *)
BeamReturn ==
    /\ fn = "beam" /\ pc = "loop" /\ pos > MaxSeqLen
    /\ IF pos = 1
       THEN Fail("UnboundLocalError")
       ELSE IF /\ bw_params.coverage_type = "fixed_width" /\ ~percentile
               /\ ~(SameShape(seqs) /\ SameLen(probs))
       THEN Fail("RuntimeError")
       ELSE pc' = "done" /\ err' = ""
    /\ UNCHANGED <<numpy_has_pow, thresholds,
                   fn, model, histories, total_seq_lens, excluded, beam_widths,
                   bw_params, num_seqs, batch, orig_beams, percentile,
                   all_beam_coverages, all_beam_widths, sorted_probs_inds,
                   sorted_states, seqs, log_probs, probs, pos, calls, n_calls,
                   rng, seed, run, first>>

-----------------------------------------------------------------------------
(* utils._set_random_seed and the torch generator. *)

(* The number of states of a generator, and seed = None. *)
RngMod == 8
NoSeed == -1

(* The generator after one draw. *)
NextRng(g) == (5 * g + 3) % RngMod

(* _set_random_seed without torch.manual_seed. *)
_set_random_seed_no_torch(s, g) ==
    IF s = NoSeed THEN g
    ELSE [py |-> s % RngMod, np |-> s % RngMod, torch |-> g.torch]

(* utils.py lines 277-284, past the assert: the three generators. *)
_set_random_seed(s, g) ==
    IF s = NoSeed THEN g
    ELSE [py |-> s % RngMod, np |-> s % RngMod, torch |-> s % RngMod]

(* torch.multinomial(w, 1) on one row of weights: the first token whose   *)
(* cumulative weight, over the total, exceeds the uniform draw g/RngMod.  *)
Multinomial(w, g) ==
    LET tot == RSum(w)
        below(t) == LET c == RSum(SubSeq(w, 1, t + 1))
                    IN  g * tot.n * c.d < c.n * tot.d * RngMod
    IN  CHOOSE t \in 0 .. (Len(w) - 1) :
            below(t) /\ \A u \in 0 .. (t - 1) : ~below(u)

(* One draw per row, rows in order: the tokens and the generator left. *)
RECURSIVE MultinomialRows(_, _)
MultinomialRows(rows, g) ==
    IF rows = <<>> THEN [toks |-> <<>>, g |-> g]
    ELSE LET rest == MultinomialRows(Tail(rows), NextRng(g))
         IN  [toks |-> <<Multinomial(Head(rows), g)>> \o rest.toks, g |-> rest.g]

(* The draws of a list of histories, in the order of the list. *)
RECURSIVE MultinomialAll(_, _)
MultinomialAll(W, g) ==
    IF W = <<>> THEN [toks |-> <<>>, g |-> g]
    ELSE LET here == MultinomialRows(Head(W), g)
             rest == MultinomialAll(Tail(W), here.g)
         IN  [toks |-> <<here.toks>> \o rest.toks, g |-> rest.g]

SetRandomSeed ==
    /\ fn = "is" /\ pc = "seed"
    /\ IF seed = 0
       THEN Fail("AssertionError") /\ UNCHANGED rng
       ELSE /\ pc' = "root"
            /\ err' = ""
            /\ rng' = _set_random_seed(seed, rng)
    /\ UNCHANGED <<numpy_has_pow, thresholds,
                   fn, model, histories, total_seq_lens, excluded, beam_widths,
                   bw_params, num_seqs, batch, orig_beams, percentile,
                   all_beam_coverages, all_beam_widths, sorted_probs_inds,
                   sorted_states, seqs, log_probs, probs, pos, calls, n_calls,
                   seed, run, first>>

-----------------------------------------------------------------------------
(* mc_sample_importance, lines 196-302. *)

Rows == 1 .. num_seqs

(* Lines 249-256: the root weights of history i. *)
ISRootProbs(i) ==
    Tensor(Normalize(MaskMul(AddEps(RootQuery(i).probs), excluded)))

(* Lines 242-288: the first sampled token of every row. *)
ISRootSample(g) ==
    LET p == Tensor([i \in Hists |-> ISRootProbs(i)])
        d == MultinomialAll([i \in Hists |-> [r \in Rows |-> p[i]]], g)
    IN  [g |-> d.g,
         seqs |-> Tensor([i \in Hists |->
             Tensor([r \in Rows |-> Append(histories[i], d.toks[i][r])])]),
         log_probs |-> Tensor([i \in Hists |->
             Tensor([r \in Rows |-> TLog(p[i][d.toks[i][r] + 1])])]),
         sorted_states |-> Tensor([i \in Hists |->
             Tensor([r \in Rows |-> RootQuery(i).state])])]

ISRoot ==
    /\ fn = "is" /\ pc = "root"
    /\ n_calls' = n_calls + NumHists
    /\ calls' = [i \in Hists |-> [tokens |-> <<histories[i]>>, states |-> None]]
    /\ \E root \in {ISRootSample(rng.torch)} :
         /\ rng' = [rng EXCEPT !.torch = root.g]
         /\ seqs' = root.seqs
         /\ log_probs' = root.log_probs
         /\ sorted_states' = root.sorted_states
    /\ pc' = "loop"
    /\ pos' = 1
    /\ UNCHANGED <<numpy_has_pow, thresholds,
                   fn, err, model, histories, total_seq_lens, excluded,
                   beam_widths, bw_params, num_seqs, batch, orig_beams,
                   percentile, all_beam_coverages, all_beam_widths,
                   sorted_probs_inds, probs, seed, run, first>>

(* Lines 155-172: the weights of the rows of an active history. *)
ISProbs(i) ==
    Tensor([r \in Rows |->
        Tensor(MaskSet(AddEps(GetNextProbs(<<Last(seqs[i][r])>>,
                                           sorted_states[i][r]).probs),
                       excluded))])

(* Lines 152-184: one iteration of importance_sampling_inner_loop. *)
ISIteration(g) ==
    LET act == {i \in Hists : Active(i)}
        p == Tensor([i \in Hists |-> IF i \in act THEN ISProbs(i) ELSE <<>>])
        d == MultinomialAll(p, g)
    IN  [g |-> d.g,
         act |-> act,
         seqs |-> Tensor([i \in Hists |->
             IF i \in act
             THEN Tensor([r \in Rows |-> Append(seqs[i][r], d.toks[i][r])])
             ELSE seqs[i]]),
         log_probs |-> Tensor([i \in Hists |->
             IF i \in act
             THEN Tensor([r \in Rows |->
                     [ln |-> Reduce(LogAdd(log_probs[i][r],
                                           TLog(p[i][r][d.toks[i][r] + 1])).ln)]])
             ELSE log_probs[i]])]

ISStep ==
    /\ fn = "is" /\ pc = "loop" /\ pos < MaxSeqLen
    /\ \E it \in {ISIteration(rng.torch)} :
         /\ rng' = [rng EXCEPT !.torch = it.g]
         /\ seqs' = it.seqs
         /\ log_probs' = it.log_probs
         /\ n_calls' = n_calls + Cardinality(it.act)
         /\ calls' = [i \in Hists |->
                IF i \in it.act
                THEN [tokens |-> [r \in Rows |-> <<Last(seqs[i][r])>>],
                      states |-> sorted_states[i]]
                ELSE NoCall]
    /\ pos' = pos + 1
    /\ UNCHANGED <<numpy_has_pow, thresholds,
                   fn, pc, err, model, histories, total_seq_lens, excluded,
                   beam_widths, bw_params, num_seqs, batch, orig_beams,
                   percentile, all_beam_coverages, all_beam_widths,
                   sorted_probs_inds, sorted_states, probs, seed, run, first>>

(* The end of the loop and lines 300-302. *)
ISReturn ==
    /\ fn = "is" /\ pc = "loop" /\ pos >= MaxSeqLen
    /\ IF batch /\ ~SameShape(seqs)
       THEN Fail("RuntimeError")
       ELSE pc' = "done" /\ err' = ""
    /\ UNCHANGED <<numpy_has_pow, thresholds,
                   fn, model, histories, total_seq_lens, excluded, beam_widths,
                   bw_params, num_seqs, batch, orig_beams, percentile,
                   all_beam_coverages, all_beam_widths, sorted_probs_inds,
                   sorted_states, seqs, log_probs, probs, pos, calls, n_calls,
                   rng, seed, run, first>>

(* The caller keeps what the first call returned and makes the same call  *)
(* again, _set_random_seed(seed) included.                                *)
Rerun ==
    /\ fn = "is" /\ pc = "done" /\ run = 1
    /\ run' = 2
    /\ first' = [seqs |-> seqs, log_probs |-> log_probs]
    /\ pc' = "seed"
    /\ sorted_states' = <<>>
    /\ seqs' = <<>>
    /\ log_probs' = <<>>
    /\ pos' = 0
    /\ calls' = <<>>
    /\ n_calls' = 0
    /\ UNCHANGED <<numpy_has_pow, thresholds,
                   fn, err, model, histories, total_seq_lens, excluded,
                   beam_widths, bw_params, num_seqs, batch, orig_beams,
                   percentile, all_beam_coverages, all_beam_widths,
                   sorted_probs_inds, probs, rng, seed>>

-----------------------------------------------------------------------------
(* The calls the model makes. *)

HistorySet == {<<0>>, <<1>>, <<1, 0>>}

Batches ==
    {b \in {<<h>> : h \in HistorySet} \cup {<<<<0>>, <<1, 0>>>>} :
        Len(b) <= MaxHists}

(* A beam_widths argument: a Python int or a Python float. *)
IntArg(w) == [type |-> "int", i |-> w, f |-> R(0, 1), l |-> <<>>]
FloatArg(c) == [type |-> "float", i |-> 0, f |-> c, l |-> <<>>]
(* A beam_widths argument that is a Python list of ints and floats. *)
ListArg(items) == [type |-> "list", i |-> 0, f |-> R(0, 1), l |-> items]

(* The list arguments: per-history widths, a list of one, a list that     *)
(* mixes the two types, and per-history coverages.                        *)
ListArgs ==
    {ListArg(<<IntArg(1), IntArg(2)>>), ListArg(<<IntArg(2)>>),
     ListArg(<<IntArg(2), FloatArg(R(1, 2))>>),
     ListArg(<<FloatArg(R(1, 2)), FloatArg(R(1, 4))>>)}

PolicyKinds == {"fixed_width", "backoff", "interpolate"}

RootFractions == {R(1, 2), R(9, 10)}

BeamArgs ==
    {[bw |-> IntArg(w), ct |-> "fixed_width"] : w \in 1 .. MaxWidth}
    \cup {[bw |-> IntArg(2), ct |-> c] : c \in {"backoff", "interpolate"}}
    \cup {[bw |-> FloatArg(RPow(r, k)), ct |-> c] :
            r \in RootFractions, k \in 1 .. MaxSteps,
            c \in {"fixed_width", "backoff", "interpolate"}}
    \cup {[bw |-> FloatArg(R(3, 2)), ct |-> c] : c \in PolicyKinds}
    \cup {[bw |-> l, ct |-> c] : l \in ListArgs, c \in PolicyKinds}
    \cup {[bw |-> IntArg(2), ct |-> "unknown"]}

(* The elements of a beam_widths argument that np.power is applied to. *)
Rooted(bw, ct, i) ==
    CASE bw.type = "float" -> {bw.f}
      [] bw.type = "list" /\ Len(bw.l) >= i /\ bw.l[1].type = "float" ->
            {AsFloat(bw.l[i])}
      [] OTHER -> {}

Seeds == {NoSeed} \cup (0 .. MaxSeed)

(* The arguments of a call of sample_beam_search. *)
BeamCall ==
    /\ fn = "beam"
    /\ pc = "prepare"
    /\ model \in ModelSet
    /\ NormDenOf(model, excluded) <= MaxNorm
    /\ \E a \in BeamArgs :
          /\ beam_widths = a.bw
          /\ bw_params = [coverage_type |-> a.ct, interpolate_step |-> None]
          /\ \A i \in 1 .. Len(histories) : \A c \in Rooted(a.bw, a.ct, i) :
                LET s == total_seq_lens[i] - Len(histories[i])
                IN  s = 0 \/ HasRoot(c, s)
          /\ numpy_has_pow \in
                IF a.bw.type = "list" /\ a.bw.l[1].type = "float" /\ a.ct # "interpolate"
                THEN BOOLEAN ELSE {TRUE}
    /\ num_seqs = 0
    /\ batch = TRUE
    /\ seed = NoSeed
    /\ rng = [py |-> 0, np |-> 0, torch |-> 0]

(* The arguments of a call of mc_sample_importance, and the seed of the   *)
(* _set_random_seed before it.                                            *)
ISCall ==
    /\ fn = "is"
    /\ pc = "seed"
    /\ model \in {TableOf(0, m) : m \in Vocab \cup {-1}}
    /\ beam_widths = IntArg(0)
    /\ numpy_has_pow = TRUE
    /\ bw_params = [coverage_type |-> "", interpolate_step |-> None]
    /\ num_seqs \in 1 .. MaxSeqs
    /\ batch \in IF Len(histories) = 1 THEN {TRUE} ELSE BOOLEAN
    /\ seed \in Seeds
    /\ rng \in {[py |-> 0, np |-> 0, torch |-> g] : g \in {0, RngMod - 1}}

Init ==
    /\ err = ""
    /\ histories \in Batches
    /\ total_seq_lens \in [1 .. Len(histories) -> 1 .. (2 + MaxSteps)]
    /\ \A i \in 1 .. Len(histories) :
          total_seq_lens[i] - Len(histories[i]) \in 0 .. MaxSteps
    /\ excluded \in {{}} \cup {{x} : x \in Vocab}
    /\ BeamCall \/ ISCall
    /\ orig_beams = <<>>
    /\ percentile = FALSE
    /\ all_beam_coverages = <<>>
    /\ all_beam_widths = <<>>
    /\ sorted_probs_inds = <<>>
    /\ sorted_states = <<>>
    /\ seqs = <<>>
    /\ log_probs = <<>>
    /\ probs = <<>>
    /\ pos = 0
    /\ calls = <<>>
    /\ n_calls = 0
    /\ run = 1
    /\ first = <<>>
    /\ thresholds = <<>>

Next ==
    \/ BeamPrepare \/ BeamRoot \/ BeamStep \/ BeamReturn
    \/ SetRandomSeed \/ ISRoot \/ ISStep \/ ISReturn \/ Rerun

Spec == Init /\ [][Next]_vars

-----------------------------------------------------------------------------
(* Properties of sample_beam_search. *)

Front(s) == SubSeq(s, 1, Len(s) - 1)

(* The product of the masked, renormalized probabilities of the last k    *)
(* tokens of seq, each given the tokens before it.                        *)
RECURSIVE PathProb(_, _)
PathProb(seq, k) ==
    IF k = 0 THEN R(1, 1)
    ELSE RMul(PathProb(Front(seq), k - 1),
              MaskedProbs(GetNextProbs(Front(seq), None).probs,
                          excluded, NormDen)[Last(seq) + 1])

Suffix(i, r) == Len(seqs[i][r]) - HistLens[i]

BeamRunning == fn = "beam" /\ pc = "loop"
BeamReturned == fn = "beam" /\ pc = "done"

(* C1: after every generation step the log-probability stored for each   *)
(* surviving candidate is the sum of the logs of the masked, renormalized *)
(* probabilities of the tokens of its own suffix, and the returned        *)
(* log-probabilities are these sums, row for row.                         *)
C1_StoredIsJoint ==
    /\ BeamRunning \/ BeamReturned =>
          \A i \in Hists : \A r \in 1 .. Len(seqs[i]) :
              REq(sorted_probs_inds[i].vals[r].ln, PathProb(seqs[i][r], Suffix(i, r)))
    /\ BeamReturned =>
          \A i \in Hists :
              /\ Len(probs[i]) = Len(seqs[i])
              /\ \A r \in 1 .. Len(seqs[i]) :
                    REq(probs[i][r].ln, PathProb(seqs[i][r], Suffix(i, r)))

(* C2: the probabilities returned for the final frontier of a history sum *)
(* to at most the mass of all completions, which is 1.                    *)
C2_FrontierMassBounded ==
    BeamReturned =>
        \A i \in Hists :
            RLeq(RSum([r \in 1 .. Len(probs[i]) |-> TExp(probs[i][r])]), R(1, 1))

(* C3: in every step, the log-probability stored for a child row is at    *)
(* most the one stored for the row it extends.                            *)
C3_ChildBelowParent ==
    [][BeamRunning /\ pos' = pos + 1 =>
          \A i \in Hists : Active(i) =>
              \A j \in 1 .. Len(seqs'[i]) : \A r \in 1 .. Len(seqs[i]) :
                  seqs[i][r] = Front(seqs'[i][j]) =>
                      LogLeq(sorted_probs_inds'[i].vals[j],
                             sorted_probs_inds[i].vals[r])]_vars

FixedInt ==
    /\ fn = "beam"
    /\ bw_params.coverage_type = "fixed_width"
    /\ beam_widths.type = "int"

(* C4 as stated: a fixed integer width W on a single history with at      *)
(* least one step returns exactly min(W, vocab_size) candidates.          *)
C4_FinalIsMinWidthVocab ==
    BeamReturned /\ FixedInt /\ NumHists = 1 /\ SeqLens[1] >= 1 =>
        Len(seqs[1]) = Min(beam_widths.i, VocabSize)

(* vocab_size to the power s. *)
RECURSIVE VocabPow(_)
VocabPow(s) == IF s = 0 THEN 1 ELSE VocabSize * VocabPow(s - 1)

(* C4: a fixed integer width W on a single history with S >= 1 steps      *)
(* returns exactly min(W, vocab_size^S) candidates.                       *)
C4_FinalIsMinWidthPaths ==
    BeamReturned /\ FixedInt /\ NumHists = 1 /\ SeqLens[1] >= 1 =>
        Len(seqs[1]) = Min(beam_widths.i, VocabPow(SeqLens[1]))

C4_Witness ==
    /\ BeamReturned /\ FixedInt /\ NumHists = 1
    /\ SeqLens[1] >= 2
    /\ beam_widths.i > VocabSize
    /\ Len(seqs[1]) = beam_widths.i

(* C5: no excluded token is in the generated suffix of a candidate of a   *)
(* frontier, of a returned candidate or of a sampled sequence.            *)
C5_NoExcludedToken ==
    pc \in {"loop", "done"} =>
        \A i \in Hists : \A r \in 1 .. Len(seqs[i]) :
            \A k \in (HistLens[i] + 1) .. Len(seqs[i][r]) :
                seqs[i][r][k] \notin excluded

BackoffFloat ==
    /\ fn = "beam"
    /\ bw_params.coverage_type = "backoff"
    /\ beam_widths.type = "float"

(* C6: under backoff with coverage c and S steps, the root threshold is   *)
(* c^(1/S), each recorded threshold is the one before times c^(1/S), and  *)
(* on return there are S of them, the last equal to c.                    *)
C6_BackoffThresholds ==
    BackoffFloat /\ pc \in {"loop", "done"} =>
        \A i \in Hists :
            LET cov == all_beam_coverages[i]
                root == Power(beam_widths.f, SeqLens[i])
            IN  /\ RPow(root, SeqLens[i]) = beam_widths.f
                /\ cov[1] = root
                /\ \A k \in 2 .. Len(cov) : REq(cov[k], RMul(cov[k - 1], root))
                /\ pc = "done" =>
                      /\ Len(cov) = SeqLens[i]
                      /\ REq(Last(cov), beam_widths.f)

C6_Witness ==
    /\ BackoffFloat /\ pc = "done"
    /\ beam_widths.f = R(81, 100)
    /\ \E i \in Hists :
          /\ SeqLens[i] = 2
          /\ all_beam_coverages[i] = <<R(9, 10), R(81, 100)>>

(* History i has reached its target length. *)
Done(i) ==
    BeamRunning /\ \A r \in 1 .. Len(seqs[i]) : Len(seqs[i][r]) >= total_seq_lens[i]

(* C7: a history that has reached its target length is not passed to the  *)
(* oracle again, and every later iteration leaves its sequences,          *)
(* log-probabilities, state, widths and coverages as they are, in its     *)
(* slot.                                                                  *)
C7_DoneIsFrozen ==
    [][\A i \in Hists : Done(i) =>
          /\ seqs'[i] = seqs[i]
          /\ sorted_probs_inds'[i] = sorted_probs_inds[i]
          /\ sorted_states'[i] = sorted_states[i]
          /\ all_beam_widths'[i] = all_beam_widths[i]
          /\ all_beam_coverages'[i] = all_beam_coverages[i]
          /\ pos' = pos + 1 =>
                /\ calls'[i] = NoCall
                /\ n_calls' - n_calls = Cardinality({j \in Hists : ~Done(j)})]_vars

C7_Witness ==
    /\ BeamRunning /\ pos >= 2
    /\ \E i, j \in Hists :
          /\ Done(i) /\ SeqLens[i] < pos - 1
          /\ calls[i] = NoCall
          /\ calls[j] # NoCall

(* C8: no candidate is ever longer than its history's target length, and  *)
(* every returned candidate has exactly that length.                      *)
C8_LengthsReachTarget ==
    pc \in {"loop", "done"} =>
        \A i \in Hists : \A r \in 1 .. Len(seqs[i]) :
            /\ Len(seqs[i][r]) <= total_seq_lens[i]
            /\ pc = "done" => Len(seqs[i][r]) = total_seq_lens[i]

Seeded == seed # NoSeed /\ seed # 0

(* C9: the second of two calls of mc_sample_importance, each made right   *)
(* after _set_random_seed with the same non-zero seed, returns the        *)
(* sequences and the log-probabilities the first returned.                *)
C9_SameSeedSameSamples ==
    fn = "is" /\ pc = "done" /\ run = 2 /\ Seeded =>
        /\ seqs = first.seqs
        /\ log_probs = first.log_probs

C9_Witness ==
    /\ fn = "is" /\ pc = "done" /\ run = 2 /\ Seeded
    /\ rng.torch # seed % RngMod
    /\ \E i \in Hists : \E r, q \in Rows : seqs[i][r] # seqs[i][q]

(* C10: a fixed width above vocab_size raises no error at the root and    *)
(* seeds vocab_size candidates, one per token id, each with one copy of   *)
(* the root state.                                                        *)
C10_RootClampsToVocab ==
    FixedInt /\ beam_widths.i > VocabSize =>
        /\ pc = "error" => all_beam_widths # <<>>
        /\ BeamRunning /\ pos = 1 =>
              \A i \in Hists :
                  /\ Len(seqs[i]) = VocabSize
                  /\ {Last(seqs[i][r]) : r \in 1 .. VocabSize} = Vocab
                  /\ \A r \in 1 .. VocabSize : Front(seqs[i][r]) = histories[i]
                  /\ sorted_states[i] = [r \in 1 .. VocabSize |-> histories[i]]

C10_Witness ==
    /\ FixedInt /\ beam_widths.i > VocabSize
    /\ BeamRunning /\ pos = 1
    /\ Len(seqs[1]) = VocabSize

(* The configurations that are valid inputs: a known policy kind, and an  *)
(* integer width, a coverage strictly between 0 and 1, or a list with one *)
(* element per history, all integers or all such coverages; interpolate   *)
(* takes coverages only.                                                  *)
InUnit(c) == 0 < c.n /\ c.n < c.d

AllInts(l) == \A k \in 1 .. Len(l) : l[k].type = "int"

AllCoverages(l) == \A k \in 1 .. Len(l) : l[k].type = "float" /\ InUnit(l[k].f)

ValidConfig ==
    /\ bw_params.coverage_type \in PolicyKinds
    /\ CASE beam_widths.type = "int" -> bw_params.coverage_type # "interpolate"
         [] beam_widths.type = "float" -> InUnit(beam_widths.f)
         [] beam_widths.type = "list" ->
               /\ Len(beam_widths.l) = NumHists
               /\ \/ AllInts(beam_widths.l) /\ bw_params.coverage_type # "interpolate"
                  \/ AllCoverages(beam_widths.l)

ConfigurationErrors == {"AssertionError", "KeyError"}

(* prepare_beams has raised. *)
Rejected == pc = "error" /\ orig_beams = <<>>

(* C11: every call of sample_beam_search whose beam_widths and policy kind *)
(* are not a valid input is rejected by prepare_beams with a configuration *)
(* error.                                                                  *)
C11_InvalidIsRejected ==
    fn = "beam" /\ pc # "prepare" /\ ~ValidConfig
        => Rejected /\ err \in ConfigurationErrors

(* C12: no call of sample_beam_search with an invalid configuration ever   *)
(* reaches an oracle query.                                                *)
C12_InvalidNeverQueries ==
    fn = "beam" /\ ~ValidConfig => n_calls = 0

(* The joint surface of history i has been computed and every entry of it *)
(* underflows, so that the renormalization of lines 568-569 is all nan.   *)
NaNSurface(i) ==
    /\ probs # <<>> /\ probs[i] # <<>> /\ calls[i] # NoCall
    /\ \A r \in DOMAIN probs[i] : \A t \in DOMAIN probs[i][r] :
          Underflows(probs[i][r][t].ln)

(* C13: when the surface of one history of a batch is nan in a step and    *)
(* another history of the batch has no such surface, the call does not     *)
(* fail.                                                                   *)
C13_NaNKeepsTheBatch ==
    fn = "beam" /\ pc # "prepare" /\ pc # "root"
        => \A i, j \in Hists :
              NaNSurface(i) /\ ~NaNSurface(j) => pc # "error"

(* A batch of two or more histories whose target lengths differ, or whose *)
(* widths are a list of integers that differ.                             *)
Ragged ==
    /\ NumHists >= 2
    /\ \/ \E i, j \in Hists : total_seq_lens[i] # total_seq_lens[j]
       \/ /\ fn = "beam" /\ beam_widths.type = "list"
          /\ Len(beam_widths.l) = NumHists /\ AllInts(beam_widths.l)
          /\ \E i, j \in Hists : beam_widths.l[i].i # beam_widths.l[j].i

(* C14: a call on a ragged batch, sample_beam_search with a valid          *)
(* configuration or mc_sample_importance with batch at its default, never  *)
(* fails in a tensor operation over the whole batch.                       *)
C14_RaggedCompletes ==
    Ragged /\ (fn = "beam" => ValidConfig) /\ (fn = "is" => batch)
        => ~(pc = "error" /\ err = "RuntimeError")

(* A step of the inner loop of sample_beam_search that does not raise. *)
GoodBeamStep == BeamStep /\ pc' = "loop"

(* Row j of the new frontier of history i comes from row r of the old one: *)
(* its tokens are those of row r and one more, the token recorded for it,  *)
(* and its state is what the oracle returned for row r in this step.       *)
ComesFrom(i, j, r) ==
    /\ seqs'[i][j] = Append(seqs[i][r], sorted_probs_inds'[i].inds[j])
    /\ sorted_states'[i][j] =
          GetNextProbs(<<Last(seqs[i][r])>>, sorted_states[i][r]).state

(* C15: in every step of beam search that does not raise, the frontier of  *)
(* an active history gets as many states as rows, and every new row comes  *)
(* from one row of the old frontier, tokens and state alike.               *)
C15_StateFollowsCandidate ==
    [][GoodBeamStep =>
          \A i \in Hists : Active(i) =>
              /\ Len(sorted_states'[i]) = Len(seqs'[i])
              /\ Len(sorted_probs_inds'[i].inds) = Len(seqs'[i])
              /\ \A j \in 1 .. Len(seqs'[i]) :
                    \E r \in 1 .. Len(seqs[i]) : ComesFrom(i, j, r)]_vars

(* After a step, a frontier in which two rows have the same parent and a   *)
(* third row has another one.                                              *)
C15_Witness ==
    /\ BeamRunning /\ pos >= 2
    /\ \E i \in Hists : \E j, k, m \in 1 .. Len(seqs[i]) :
          /\ Suffix(i, j) >= 2
          /\ j # k
          /\ Front(seqs[i][j]) = Front(seqs[i][k])
          /\ Front(seqs[i][j]) # Front(seqs[i][m])
          /\ sorted_states[i][j] = sorted_states[i][k]
          /\ sorted_states[i][j] # sorted_states[i][m]

(* C16: after every step of the inner loop of mc_sample_importance, the    *)
(* query made in that step for an unfinished history carried, for each     *)
(* row, the token sampled last before the step and the state the oracle    *)
(* had returned for the row's tokens before that one.                      *)
C16_ISQueriesWithLatestState ==
    fn = "is" /\ pc = "loop" /\ pos >= 2
        => \A i \in Hists : calls[i] # NoCall =>
              \A r \in Rows :
                 /\ calls[i].tokens[r] = <<Last(Front(seqs[i][r]))>>
                 /\ calls[i].states[r] = Front(Front(seqs[i][r]))

(* C17: under backoff with a coverage, the threshold handed to             *)
(* get_beam_width at generation step k >= 2 of a history (the root is      *)
(* step 1) is the threshold of step k - 1 times the original per-step      *)
(* threshold.                                                              *)
C17_AppliedThresholdAdvances ==
    BackoffFloat /\ thresholds # <<>>
        => \A i \in Hists : \A k \in 2 .. Len(thresholds[i]) :
              REq(thresholds[i][k], RMul(thresholds[i][k - 1], orig_beams[i]))

(* The mass of the k most probable tokens of the root distribution of     *)
(* history i, over the common denominator; read right after the root.     *)
TopMass(i, k) == ISum([t \in 1 .. k |-> sorted_probs_inds[i].vals[t].ln.n])

RootDen(i) == sorted_probs_inds[i].vals[1].ln.d

(* k tokens reach the threshold c. *)
Reaches(i, k, c) == TopMass(i, k) * c.d >= c.n * RootDen(i)

(* C18: right after the root under percentile coverage, the width recorded *)
(* for a history is the smallest k such that its k most probable tokens    *)
(* reach the initial threshold, and the frontier is those k tokens in      *)
(* descending order of probability.                                        *)
C18_RootWidthFromSorted ==
    fn = "beam" /\ pc = "loop" /\ pos = 1 /\ percentile
        => \A i \in Hists :
              LET w == all_beam_widths[i][1]
                  c == thresholds[i][1]
              IN  /\ w \in 1 .. VocabSize
                  /\ Reaches(i, w, c)
                  /\ \A k \in 1 .. w - 1 : ~Reaches(i, k, c)
                  /\ Len(seqs[i]) = w
                  /\ \A r \in 1 .. Len(seqs[i]) :
                        seqs[i][r] = Append(histories[i],
                                            sorted_probs_inds[i].inds[r])

(* In a step, the entries (row, token + 1) of the joint surface of history *)
(* i, and those kept: one per new row, its parent row and its last token.  *)
Entries(i) == (1 .. Len(probs'[i])) \X (1 .. VocabSize)

ParentOf(i, j) == CHOOSE r \in 1 .. Len(seqs[i]) : seqs[i][r] = Front(seqs'[i][j])

Kept(i) == {<<ParentOf(i, j), Last(seqs'[i][j]) + 1>> : j \in 1 .. Len(seqs'[i])}

(* The joint value of an entry, and its exponential as line 568 gives it. *)
JointOf(i, e) == probs'[i][e[1]][e[2]]

ExpOf(i, e) == TExp(JointOf(i, e))

RECURSIVE MassOf(_, _)
MassOf(i, es) ==
    IF es = {} THEN 0
    ELSE LET e == CHOOSE x \in es : TRUE
         IN  ExpOf(i, e).n + MassOf(i, es \ {e})

(* The entries es hold at least the share c of the mass of the surface. *)
Covers(i, es, c) == MassOf(i, es) * c.d >= c.n * MassOf(i, Entries(i))

(* C19: in every step of beam search under percentile coverage that does   *)
(* not raise, the width recorded for an active history is the number of    *)
(* rows of its new frontier, these rows are distinct entries of the joint  *)
(* surface none of which is below an entry left out, together they reach   *)
(* the current threshold of the renormalized mass, and without any one of  *)
(* them, the smallest included, they do not.                               *)
C19_StepWidthIsSmallestCover ==
    [][GoodBeamStep /\ percentile =>
          \A i \in Hists : Active(i) =>
              LET w == Last(all_beam_widths'[i])
                  c == Threshold(i)
              IN  /\ w >= 1
                  /\ Len(all_beam_widths'[i]) = Len(all_beam_widths[i]) + 1
                  /\ Len(seqs'[i]) = w
                  /\ Cardinality(Kept(i)) = w
                  /\ \A e, f \in Entries(i) :
                        ExpOf(i, e).d = ExpOf(i, f).d
                  /\ \A e \in Kept(i) : \A f \in Entries(i) \ Kept(i) :
                        LogLeq(JointOf(i, f), JointOf(i, e))
                  /\ Covers(i, Kept(i), c)
                  /\ \A e \in Kept(i) : ~Covers(i, Kept(i) \ {e}, c)]_vars

(* After a step under percentile coverage, a frontier of two or more rows  *)
(* that is not the whole surface.                                          *)
C19_Witness ==
    /\ BeamRunning /\ percentile /\ pos >= 2
    /\ \E i \in Hists :
          /\ Len(all_beam_widths[i]) >= 2
          /\ Last(all_beam_widths[i]) >= 2
          /\ Len(seqs[i]) = Last(all_beam_widths[i])
          /\ Len(seqs[i]) < Len(probs[i]) * VocabSize

(* C20: after the root and after every later step that does not raise, the *)
(* frontier of every history has as many token sequences and as many       *)
(* states as the last width recorded for it.                               *)
C20_FrontierSizeIsRecordedWidth ==
    fn = "beam" /\ pc \in {"loop", "done"}
        => \A i \in Hists :
              /\ Len(seqs[i]) = Last(all_beam_widths[i])
              /\ Len(sorted_states[i]) = Last(all_beam_widths[i])

(* C21: in every step of the inner loop of mc_sample_importance, the       *)
(* running log-probability of each row of an active history grows by the   *)
(* log of the sampled token's share of the row's masked weights, that is   *)
(* of its probability under the masked distribution renormalized to 1.     *)
C21_ISTermIsNormalized ==
    [][ISStep =>
          \A i \in Hists : Active(i) =>
              \A r \in Rows :
                 LET tok == Last(seqs'[i][r])
                     q == Normalize(ISProbs(i)[r])[tok + 1]
                 IN  /\ seqs'[i][r] = Append(seqs[i][r], tok)
                     /\ Reduce(log_probs'[i][r].ln) =
                           Reduce(RMul(log_probs[i][r].ln, q))]_vars

(* C22: no step of a call of sample_beam_search changes the caller's       *)
(* bw_params mapping or the caller's excluded tokens.                      *)
C22_ArgumentsUnchanged ==
    [][fn = "beam" => bw_params' = bw_params /\ excluded' = excluded]_vars

(* A fixed integer width that the tokens left after exclusion can fill. *)
WidthFitsLegal ==
    /\ FixedInt
    /\ excluded # {}
    /\ beam_widths.i >= 1
    /\ beam_widths.i <= VocabSize - Cardinality(excluded)

(* C23: under fixed_width with an integer width of at most the number of   *)
(* tokens that are not excluded, no candidate of any frontier of           *)
(* sample_beam_search has an excluded token at a generated position.       *)
C23_NoExcludedWhenWidthFits ==
    WidthFitsLegal /\ seqs # <<>>
        => \A i \in Hists : \A r \in 1 .. Len(seqs[i]) :
              \A k \in (HistLens[i] + 1) .. Len(seqs[i][r]) :
                  seqs[i][r][k] \notin excluded

(* After two generation steps with an excluded token, a frontier of two    *)
(* candidates.                                                             *)
C23_Witness ==
    /\ WidthFitsLegal /\ pc = "loop" /\ pos >= 2
    /\ \E i \in Hists :
          /\ Len(seqs[i]) = 2
          /\ \A r \in 1 .. 2 : Suffix(i, r) >= 2

(* C24: an iteration of the loop of beam search in which some history is   *)
(* active issues exactly one oracle call, however many histories are       *)
(* active.                                                                 *)
C24_OneCallPerIteration ==
    [][BeamStep /\ (\E i \in Hists : Active(i)) => n_calls' = n_calls + 1]_vars

(* C25: the token sequences of the candidates of a frontier of             *)
(* sample_beam_search are pairwise distinct, after the root and after      *)
(* every later step.                                                       *)
C25_CandidatesDistinct ==
    fn = "beam" /\ seqs # <<>>
        => \A i \in Hists : \A r, q \in 1 .. Len(seqs[i]) :
              r # q => seqs[i][r] # seqs[i][q]

(* After a step, a frontier of three or more candidates, two of them with  *)
(* the same parent.                                                        *)
C25_Witness ==
    /\ BeamRunning /\ pos >= 2
    /\ \E i \in Hists :
          /\ Len(seqs[i]) >= 3
          /\ \E r, q \in 1 .. Len(seqs[i]) :
                /\ r # q
                /\ Suffix(i, r) >= 2
                /\ Front(seqs[i][r]) = Front(seqs[i][q])


====
